---- MODULE Spec2Model ----
(***************************************************************************)
(* A model of defaultdata.py: the `check` command                          *)
(* (check_project_structure), the `package` command                        *)
(* (package_investigations, compute_file_info) and load_yaml_fields.       *)
(*                                                                         *)
(* File names are sequences of one-character strings, so that the regular  *)
(* expressions, str.endswith and os.path.splitext are computed character   *)
(* by character.  The file system is an input fixed in the initial state.  *)
(***************************************************************************)
EXTENDS Integers, Sequences, FiniteSets, TLC

VARIABLES
    mode,            \* "check" | "package" | "fields": the entry point run
    pc,              \* position in the running function
    hasReadme,       \* os.path.isfile(<project>/README.md)
    hasData,         \* os.path.isdir(<project>/data)
    listing,         \* os.listdir(data_path): entries [name, kind, bytes, readable, yaml]
    target,          \* target_inv: [given, name]; given = FALSE is None
    yamlOk,          \* the module-level `yaml` is not None: "unknown" until first read
    i,               \* index of the running for loop
    errors,          \* check: the list `errors`
    investigations,  \* the dict `investigations`, in insertion order
    resources,       \* package: the list `resources`
    created,         \* package: the timestamp `created`
    clock,           \* the UTC clock, in seconds
    stderr,          \* warnings printed to standard error
    exitMsg,         \* which sys.exit was called, "" while none was
    outFile,         \* the project's datapackage.json: [kind, pkg]
    run,             \* package: which of two consecutive runs is executing
    before,          \* package: datapackage.json when this run began, and the
                     \* exit message of the run before it
    yaml_data,       \* fields: the value yaml.safe_load returned
    fields           \* fields: the list load_yaml_fields returns

vars == <<mode, pc, hasReadme, hasData, listing, target, yamlOk, i, errors,
          investigations, resources, created, clock, stderr, exitMsg, outFile,
          run, before, yaml_data, fields>>

(***************************************************************************)
(* Bounds of the model.                                                    *)
(***************************************************************************)
\* entries of data/ in a listing drawn from the curated pool
MaxFiles == 3
\* pieces concatenated into the single file name of a one-file listing
MaxPieces == 3
\* top-level keys of a sidecar mapping given to load_yaml_fields
MaxKeys == 2
\* the last second the UTC clock reaches
MaxClock == 2
\* bytes per read of the hashing loop (8192 in the source), scaled so that a
\* modelled file spans several reads
ChunkSize == 2

(***************************************************************************)
(* Characters and strings.                                                 *)
(***************************************************************************)
NL == "\n"

\* the class [A-Za-z0-9_] of a Python str pattern: ASCII only
WordChars ==
    {"a","b","c","d","e","f","g","h","i","j","k","l","m","n","o","p","q","r",
     "s","t","u","v","w","x","y","z",
     "A","B","C","D","E","F","G","H","I","J","K","L","M","N","O","P","Q","R",
     "S","T","U","V","W","X","Y","Z",
     "0","1","2","3","4","5","6","7","8","9","_"}

\* re.fullmatch(r"[A-Za-z0-9_]+", s)
FullMatchName(s) == Len(s) >= 1 /\ \A j \in 1..Len(s) : s[j] \in WordChars

SetMax(S) == CHOOSE m \in S : \A n \in S : n <= m

\* the literal `lit` occurs in s at position p
LitAt(s, p, lit) ==
    /\ p + Len(lit) - 1 <= Len(s)
    /\ \A j \in 1..Len(lit) : s[p + j - 1] = lit[j]

\* `$` (no MULTILINE) matches at position p: at the end of the string, or just
\* before a newline that is the string's last character
DollarAt(s, p) == p = Len(s) + 1 \/ (p = Len(s) /\ s[p] = NL)

\* `.+$` matches from position p: one or more characters other than a newline
\* (no DOTALL), then `$`
DotPlusDollarAt(s, p) ==
    \E e \in p..Len(s) : (\A j \in p..e : s[j] # NL) /\ DollarAt(s, e + 1)

\* the four compiled patterns: `^(?P<inv>[A-Za-z0-9_]+)` then a literal, then
\* `.+$` (anyExt) or `$`
source_pattern  == [lit |-> <<"-","s","o","u","r","c","e",".">>, anyExt |-> TRUE]
raw_pattern     == [lit |-> <<"-","r","a","w",".">>, anyExt |-> TRUE]
tidy_pattern    == [lit |-> <<".","t","s","v">>, anyExt |-> FALSE]
sidecar_pattern == [lit |-> <<".","y","m","l">>, anyExt |-> FALSE]

\* pattern.match(file): the lengths of the group `inv` with which the whole
\* pattern matches; the match exists iff the set is not empty
MatchLens(pattern, s) ==
    {k \in 1..Len(s) :
        /\ \A j \in 1..k : s[j] \in WordChars
        /\ LitAt(s, k + 1, pattern.lit)
        /\ IF pattern.anyExt
              THEN DotPlusDollarAt(s, k + 1 + Len(pattern.lit))
              ELSE DollarAt(s, k + 1 + Len(pattern.lit))}

\* a slip: the group runs one character into the literal that follows it
GroupInv_TooLong(pattern, s) == SubSeq(s, 1, SetMax(MatchLens(pattern, s)) + 1)

\* m.group('inv'): the quantifier is greedy, the longest group is found first
GroupInv(pattern, s) == SubSeq(s, 1, SetMax(MatchLens(pattern, s)))

\* the list of (ftype, pattern) pairs the classification loop walks
PatternList ==
    << [ftype |-> "source",  pattern |-> source_pattern],
       [ftype |-> "raw",     pattern |-> raw_pattern],
       [ftype |-> "tidy",    pattern |-> tidy_pattern],
       [ftype |-> "sidecar", pattern |-> sidecar_pattern] >>

\* the inner for loop with its break: the first pattern that matches decides
ClassifyFile(file) ==
    LET hits == {n \in 1..Len(PatternList) :
                    MatchLens(PatternList[n].pattern, file) # {}}
    IN  IF hits = {}
           THEN [matched |-> FALSE, ftype |-> "none", inv |-> <<>>]
           ELSE LET n == CHOOSE m \in hits : \A o \in hits : m <= o
                IN  [matched |-> TRUE, ftype |-> PatternList[n].ftype,
                     inv |-> GroupInv(PatternList[n].pattern, file)]

\* the names the classification loop skips
IgnoredNames ==
    { <<".","g","i","t","i","g","n","o","r","e">>,
      <<".","D","S","_","S","t","o","r","e">> }

(***************************************************************************)
(* Inputs: file names, directory entries, target arguments.                *)
(***************************************************************************)
n_raw_x    == <<"a","-","r","a","w",".","x">>
n_raw_y    == <<"a","-","r","a","w",".","y">>
n_tidy     == <<"a",".","t","s","v">>
n_tidy_nl  == <<"a",".","t","s","v",NL>>
n_sidecar  == <<"a",".","y","m","l">>
n_source_x == <<"a","-","s","o","u","r","c","e",".","x">>
n_source_y == <<"a","-","s","o","u","r","c","e",".","y">>
n_b_tidy   == <<"b",".","t","s","v">>
n_b_yml    == <<"b",".","y","m","l">>
n_txt      == <<"n",".","t","x","t">>
n_c_tidy   == <<"c",".","t","s","v">>
n_dash_yml == <<"a","-","b",".","y","m","l">>
n_dot_yml  == <<".","y","m","l">>

NoYaml == [tag |-> "none", items |-> <<>>]

\* a directory entry whose content the run never reads
Plain(name, kind) ==
    [name |-> name, kind |-> kind, bytes |-> <<>>, readable |-> TRUE,
     yaml |-> NoYaml]

\* the entries the listings of check mode are drawn from: regular files of
\* every role, two investigations, an unmatched name and a subfolder
CheckPool ==
    { Plain(n_raw_x, "file"), Plain(n_raw_y, "file"), Plain(n_tidy, "file"),
      Plain(n_tidy_nl, "file"), Plain(n_sidecar, "file"),
      Plain(n_source_x, "file"), Plain(n_source_y, "file"),
      Plain(n_b_tidy, "file"), Plain(n_txt, "file"), Plain(n_c_tidy, "dir") }

\* os.listdir: the entries in arbitrary order, no name twice
Listings(pool, max) ==
    {s \in UNION {[1..n -> pool] : n \in 0..max} :
        \A j, k \in 1..Len(s) : j # k => s[j].name # s[k].name}

Pieces ==
    { <<"a">>, <<"B","9","_">>, <<"-">>, <<".">>, <<"~">>, <<NL>>,
      <<"-","s","o","u","r","c","e">>, <<"-","r","a","w">>,
      <<".","t","s","v">>, <<".","y","m","l">> }

RECURSIVE Concat(_)
Concat(ss) == IF ss = <<>> THEN <<>> ELSE Head(ss) \o Concat(Tail(ss))

\* file names built from at most MaxPieces pieces, and the two ignored names;
\* listdir never returns "", "." or ".."
PieceNames ==
    ({Concat(ss) : ss \in UNION {[1..n -> Pieces] : n \in 1..MaxPieces}}
        \cup IgnoredNames) \ { <<".">>, <<".",".">> }

None == [given |-> FALSE, name |-> <<>>]
Arg(name) == [given |-> TRUE, name |-> name]
\* `if target_inv:` is false for None and for the empty string
Truthy(t) == t.given /\ t.name # <<>>

CheckTargets == {None, Arg(<<>>), Arg(<<"a">>), Arg(<<"z","z">>)}

(***************************************************************************)
(* check_project_structure.                                                *)
(***************************************************************************)
Err(kind, subject, found) == [kind |-> kind, subject |-> subject, found |-> found]

\* investigations.setdefault(inv_name, {...}); investigations[inv_name][ftype].append(file)
NewInv(inv) ==
    [inv |-> inv, source |-> <<>>, raw |-> <<>>, tidy |-> <<>>, sidecar |-> <<>>]

Keys(d) == {d[k].inv : k \in 1..Len(d)}

AddFile(d, inv, ftype, file) ==
    LET d1 == IF inv \in Keys(d) THEN d ELSE Append(d, NewInv(inv))
    IN  [k \in 1..Len(d1) |->
            IF d1[k].inv = inv
               THEN [d1[k] EXCEPT ![ftype] = Append(@, file)]
               ELSE d1[k]]

Lookup(d, inv) == d[CHOOSE k \in 1..Len(d) : d[k].inv = inv]

CheckReadme ==
    /\ mode = "check" /\ pc = "readme"
    /\ errors' = IF hasReadme THEN errors
                 ELSE Append(errors, Err("no_readme", <<>>, 0))
    /\ pc' = "data"
    /\ UNCHANGED <<mode, hasReadme, hasData, listing, target, yamlOk, i,
                   investigations, resources, created, clock, stderr, exitMsg,
                   outFile, run, before, yaml_data, fields>>

\* a slip: the data-folder error is recorded but the run goes on
CheckData_NoReturn ==
    /\ mode = "check" /\ pc = "data"
    /\ errors' = IF hasData THEN errors ELSE Append(errors, Err("no_data", <<>>, 0))
    /\ pc' = (IF listing = <<>> THEN "filter" ELSE "subfolders") /\ i' = 1
    /\ UNCHANGED <<mode, hasReadme, hasData, listing, target, yamlOk,
                   investigations, resources, created, clock, stderr, exitMsg,
                   outFile, run, before, yaml_data, fields>>

CheckData ==
    /\ mode = "check" /\ pc = "data"
    /\ IF hasData
          THEN /\ errors' = errors /\ i' = 1
               /\ pc' = IF listing = <<>> THEN "filter" ELSE "subfolders"
          ELSE /\ errors' = Append(errors, Err("no_data", <<>>, 0))
               /\ pc' = "done" /\ i' = i
    /\ UNCHANGED <<mode, hasReadme, hasData, listing, target, yamlOk,
                   investigations, resources, created, clock, stderr, exitMsg,
                   outFile, run, before, yaml_data, fields>>

\* one iteration of the loop that flags subfolders of data/
ScanSubfolder ==
    /\ mode = "check" /\ pc = "subfolders"
    /\ errors' = IF listing[i].kind = "dir"
                    THEN Append(errors, Err("subfolder", listing[i].name, 0))
                    ELSE errors
    /\ IF i = Len(listing)
          THEN pc' = "classify" /\ i' = 1
          ELSE pc' = pc /\ i' = i + 1
    /\ UNCHANGED <<mode, hasReadme, hasData, listing, target, yamlOk,
                   investigations, resources, created, clock, stderr, exitMsg,
                   outFile, run, before, yaml_data, fields>>

\* the body of the classification loop for one file
ClassifyInto(d, errs, entry) ==
    IF entry.name \in IgnoredNames \/ entry.kind # "file"
       THEN [investigations |-> d, errors |-> errs]
       ELSE LET c == ClassifyFile(entry.name)
            IN  IF c.matched
                   THEN [investigations |-> AddFile(d, c.inv, c.ftype, entry.name),
                         errors |-> errs]
                   ELSE [investigations |-> d,
                         errors |-> Append(errs, Err("no_match", entry.name, 0))]

ClassifyStep ==
    /\ mode = "check" /\ pc = "classify"
    /\ LET r == ClassifyInto(investigations, errors, listing[i])
       IN  /\ investigations' = r.investigations
           /\ errors' = r.errors
    /\ IF i = Len(listing)
          THEN pc' = "filter" /\ i' = 1
          ELSE pc' = pc /\ i' = i + 1
    /\ UNCHANGED <<mode, hasReadme, hasData, listing, target, yamlOk,
                   resources, created, clock, stderr, exitMsg,
                   outFile, run, before, yaml_data, fields>>

\* a slip: a missing target is reported but the working set is not emptied
FilterTarget_KeepsAll ==
    /\ mode = "check" /\ pc = "filter"
    /\ IF Truthy(target)
          THEN IF target.name \notin Keys(investigations)
                  THEN /\ errors' = Append(errors, Err("not_found", target.name, 0))
                       /\ investigations' = investigations
                  ELSE /\ errors' = errors
                       /\ investigations' = <<Lookup(investigations, target.name)>>
          ELSE UNCHANGED <<errors, investigations>>
    /\ pc' = (IF investigations' = <<>> THEN "done" ELSE "counts") /\ i' = 1
    /\ UNCHANGED <<mode, hasReadme, hasData, listing, target, yamlOk,
                   resources, created, clock, stderr, exitMsg,
                   outFile, run, before, yaml_data, fields>>

\* `if target_inv:` ... filter the investigations
FilterTarget ==
    /\ mode = "check" /\ pc = "filter"
    /\ IF Truthy(target)
          THEN IF target.name \notin Keys(investigations)
                  THEN /\ errors' = Append(errors, Err("not_found", target.name, 0))
                       /\ investigations' = <<>>
                  ELSE /\ errors' = errors
                       /\ investigations' = <<Lookup(investigations, target.name)>>
          ELSE UNCHANGED <<errors, investigations>>
    /\ pc' = (IF investigations' = <<>> THEN "done" ELSE "counts") /\ i' = 1
    /\ UNCHANGED <<mode, hasReadme, hasData, listing, target, yamlOk,
                   resources, created, clock, stderr, exitMsg,
                   outFile, run, before, yaml_data, fields>>

AppendIf(errs, cond, e) == IF cond THEN Append(errs, e) ELSE errs

\* a slip: the source rule demands exactly one source file, like the others
CountErrors_SourceExactlyOne(errs, f) ==
    LET e1 == AppendIf(errs, Len(f.raw) # 1, Err("raw_count", f.inv, Len(f.raw)))
        e2 == AppendIf(e1, Len(f.tidy) # 1, Err("tidy_count", f.inv, Len(f.tidy)))
        e3 == AppendIf(e2, Len(f.sidecar) # 1,
                       Err("sidecar_count", f.inv, Len(f.sidecar)))
    IN  AppendIf(e3, Len(f.source) # 1, Err("source_count", f.inv, Len(f.source)))

\* the body of the first loop over investigations.items()
CountErrors(errs, f) ==
    LET e0 == AppendIf(errs, ~FullMatchName(f.inv), Err("bad_name", f.inv, 0))
        e1 == AppendIf(e0, Len(f.raw) # 1, Err("raw_count", f.inv, Len(f.raw)))
        e2 == AppendIf(e1, Len(f.tidy) # 1, Err("tidy_count", f.inv, Len(f.tidy)))
        e3 == AppendIf(e2, Len(f.sidecar) # 1,
                       Err("sidecar_count", f.inv, Len(f.sidecar)))
    IN  AppendIf(e3, Len(f.source) > 1, Err("source_count", f.inv, Len(f.source)))

CheckInvestigation ==
    /\ mode = "check" /\ pc = "counts"
    /\ errors' = CountErrors(errors, investigations[i])
    /\ IF i = Len(investigations)
          THEN pc' = "content" /\ i' = 1
          ELSE pc' = pc /\ i' = i + 1
    /\ UNCHANGED <<mode, hasReadme, hasData, listing, target, yamlOk,
                   investigations, resources, created, clock, stderr, exitMsg,
                   outFile, run, before, yaml_data, fields>>

\* what opening the tidy file and reading its first line can come to
TidyReads == {"tab", "no_tab", "not_utf8", "os_error"}
\* what yaml.safe_load of the sidecar can come to
SidecarLoads == {"ok", "yaml_error"}

\* the body of the second loop over investigations.items()
ContentErrors(errs, f, tidyRead, sidecarLoad, haveYaml) ==
    LET e0 == IF f.tidy = <<>> THEN errs
              ELSE IF tidyRead = "no_tab"
                      THEN Append(errs, Err("not_tsv", f.tidy[1], 0))
              ELSE IF tidyRead = "not_utf8"
                      THEN Append(errs, Err("not_utf8", f.tidy[1], 0))
              ELSE IF tidyRead = "os_error"
                      THEN Append(errs, Err("read_error", f.tidy[1], 0))
              ELSE errs
    IN  IF f.sidecar = <<>> THEN e0
        ELSE IF haveYaml
                THEN AppendIf(e0, sidecarLoad = "yaml_error",
                              Err("bad_yaml", f.sidecar[1], 0))
                ELSE Append(e0, Err("no_pyyaml", <<>>, 0))

CheckContent ==
    /\ mode = "check" /\ pc = "content"
    /\ \E tidyRead \in (IF investigations[i].tidy = <<>>
                             THEN {"tab"} ELSE TidyReads),
          have \in (IF investigations[i].sidecar = <<>> THEN {yamlOk}
                    ELSE IF yamlOk = "unknown" THEN {"present", "absent"}
                    ELSE {yamlOk}) :
          \E sidecarLoad \in (IF investigations[i].sidecar = <<>> \/ have = "absent"
                                  THEN {"ok"} ELSE SidecarLoads) :
             /\ yamlOk' = have
             /\ errors' = ContentErrors(errors, investigations[i], tidyRead,
                                        sidecarLoad, have = "present")
    /\ IF i = Len(investigations)
          THEN pc' = "done" /\ i' = i
          ELSE pc' = pc /\ i' = i + 1
    /\ UNCHANGED <<mode, hasReadme, hasData, listing, target,
                   investigations, resources, created, clock, stderr, exitMsg,
                   outFile, run, before, yaml_data, fields>>

NoPackage == [name |-> <<>>, resources |-> <<>>]
NoFile == [kind |-> "absent", pkg |-> NoPackage]
NoRun == [exitMsg |-> "", outFile |-> NoFile]

\* the variables check mode never touches
IdleOfCheck ==
    /\ resources = <<>> /\ created = 0 /\ clock = 0 /\ stderr = <<>>
    /\ exitMsg = "" /\ outFile = NoFile /\ run = 1 /\ before = NoRun
    /\ yaml_data = NoYaml /\ fields = <<>>

\* the state on entry to check_project_structure: a project directory with a
\* listing of data/ from the curated pool, or one with a single regular file
\* whose name is any of PieceNames
Init ==
    /\ mode = "check" /\ pc = "readme" /\ i = 1
    /\ errors = <<>> /\ investigations = <<>>
    /\ IdleOfCheck
    /\ \/ /\ hasReadme \in BOOLEAN /\ hasData \in BOOLEAN
          /\ yamlOk = "unknown"
          /\ target \in CheckTargets
          /\ listing \in (IF hasData THEN Listings(CheckPool, MaxFiles) ELSE {<<>>})
       \/ /\ hasReadme = TRUE /\ hasData = TRUE /\ yamlOk = "unknown"
          /\ target = None
          /\ listing \in {<<Plain(n, "file")>> : n \in PieceNames}

Next ==
    \/ CheckReadme
    \/ CheckData
    \/ ScanSubfolder
    \/ ClassifyStep
    \/ FilterTarget
    \/ CheckInvestigation
    \/ CheckContent

Spec == Init /\ [][Next]_vars

(***************************************************************************)
(* Properties of check mode.                                               *)
(***************************************************************************)
ErrIdx(kind) == {k \in 1..Len(errors) : errors[k].kind = kind}
ErrIdxOf(kind, subject) == {k \in ErrIdx(kind) : errors[k].subject = subject}

\* the regular files of data/ the classification loop looks at
Classified == {k \in 1..Len(listing) :
                  listing[k].kind = "file" /\ listing[k].name \notin IgnoredNames}

\* the shapes of section 4.1, read literally: X-source.ext, X-raw.ext, X.tsv,
\* X.yml with X a non-empty string over [A-Za-z0-9_] and ext any non-empty string
ShapeOf(s) ==
    {r \in {[ftype |-> PatternList[n].ftype, inv |-> SubSeq(s, 1, k), n |-> n] :
                n \in 1..Len(PatternList), k \in 1..Len(s)} :
        /\ FullMatchName(r.inv)
        /\ LitAt(s, Len(r.inv) + 1, PatternList[r.n].pattern.lit)
        /\ IF PatternList[r.n].pattern.anyExt
              THEN Len(s) > Len(r.inv) + Len(PatternList[r.n].pattern.lit)
              ELSE Len(s) = Len(r.inv) + Len(PatternList[r.n].pattern.lit)}

\* the role lists of the grouping that hold the file
HeldIn(file) ==
    {<<k, ftype>> \in (1..Len(investigations)) \X {"source", "raw", "tidy", "sidecar"} :
        \E j \in 1..Len(investigations[k][ftype]) : investigations[k][ftype][j] = file}

\* C1: once every entry of data/ is classified, a regular file whose name has
\* one of the four shapes is held in exactly the role list of that shape under
\* the investigation X and draws no error; any other regular file (the two
\* ignored names aside) is held in no list and draws exactly one "does not
\* match any known naming pattern" error.
C1_ClassifiedByShape ==
    (mode = "check" /\ pc = "filter") =>
        \A k \in Classified :
            LET file == listing[k].name
                shape == ShapeOf(file)
            IN  IF shape # {}
                   THEN /\ ErrIdxOf("no_match", file) = {}
                        /\ \E r \in shape :
                              HeldIn(file) =
                                 {<<j, r.ftype>> : j \in {j \in 1..Len(investigations) :
                                                     investigations[j].inv = r.inv}}
                        /\ Cardinality(HeldIn(file)) = 1
                   ELSE /\ HeldIn(file) = {}
                        /\ Cardinality(ErrIdxOf("no_match", file)) = 1

CountKinds == {"raw_count", "tidy_count", "sidecar_count", "source_count"}

\* the rule of one role: the list it counts and whether the count breaks it
RoleOfKind(kind) ==
    IF kind = "raw_count" THEN "raw"
    ELSE IF kind = "tidy_count" THEN "tidy"
    ELSE IF kind = "sidecar_count" THEN "sidecar" ELSE "source"
Violates(kind, n) == IF kind = "source_count" THEN n > 1 ELSE n # 1

\* C2: in the returned list, every investigation of the working set has, for
\* each role, one cardinality error stating the count found when the count
\* breaks the role's rule and none when it does not; no cardinality error is
\* about anything else.
C2_CardinalityErrors ==
    (mode = "check" /\ pc = "done" /\ hasData) =>
        /\ \A k \in 1..Len(investigations), kind \in CountKinds :
              LET f == investigations[k]
                  n == Len(f[RoleOfKind(kind)])
                  hits == ErrIdxOf(kind, f.inv)
              IN  IF Violates(kind, n)
                     THEN Cardinality(hits) = 1 /\ \A h \in hits : errors[h].found = n
                     ELSE hits = {}
        /\ \A kind \in CountKinds : \A h \in ErrIdx(kind) :
              errors[h].subject \in Keys(investigations)

\* an investigation with two raw files and no tidy file has been reported
C2_Witness ==
    /\ mode = "check" /\ pc = "done"
    /\ \E k \in 1..Len(investigations) :
          /\ Len(investigations[k].raw) = 2 /\ investigations[k].tidy = <<>>
          /\ \E h \in ErrIdxOf("raw_count", investigations[k].inv) : errors[h].found = 2
          /\ \E h \in ErrIdxOf("tidy_count", investigations[k].inv) : errors[h].found = 0

RECURSIVE GroupAll(_, _)
GroupAll(d, entries) ==
    IF entries = <<>> THEN d
    ELSE GroupAll(ClassifyInto(d, <<>>, Head(entries)).investigations, Tail(entries))

\* the investigations the classification discovers in data/
Discovered == Keys(GroupAll(<<>>, listing))

\* the root-level errors, in the order the checks run
RootErrors ==
    (IF hasReadme THEN <<>> ELSE <<Err("no_readme", <<>>, 0)>>)
    \o [k \in 1..Len(SelectSeq(listing, LAMBDA e : e.kind = "dir")) |->
          Err("subfolder", SelectSeq(listing, LAMBDA e : e.kind = "dir")[k].name, 0)]
    \o [k \in 1..Len(SelectSeq(listing, LAMBDA e :
                        e.kind = "file" /\ e.name \notin IgnoredNames
                        /\ ~ClassifyFile(e.name).matched)) |->
          Err("no_match",
              SelectSeq(listing, LAMBDA e :
                        e.kind = "file" /\ e.name \notin IgnoredNames
                        /\ ~ClassifyFile(e.name).matched)[k].name, 0)]

\* C3: when data/ exists and the (non-empty) target is not among the
\* investigations discovered, the returned list is the root-level errors
\* followed by the one error naming the target, and nothing else.
C3_MissingTarget ==
    (mode = "check" /\ pc = "done" /\ hasData
        /\ Truthy(target) /\ target.name \notin Discovered) =>
        errors = Append(RootErrors, Err("not_found", target.name, 0))

\* a missing target was asked for in a directory that has investigations, a
\* subfolder and an unmatched file
C3_Witness ==
    /\ mode = "check" /\ pc = "done" /\ hasData /\ ~hasReadme
    /\ Truthy(target) /\ target.name \notin Discovered /\ Discovered # {}
    /\ ErrIdx("subfolder") # {} /\ ErrIdx("no_match") # {}
    /\ ErrIdx("not_found") # {}

\* C4: without a data/ folder the returned list is the missing-README error,
\* if any, followed by the data-folder error, and nothing was classified.
C4_NoDataFolder ==
    (mode = "check" /\ ~hasData /\ pc \notin {"readme", "data"}) =>
        /\ pc = "done"
        /\ errors = (IF hasReadme THEN <<>> ELSE <<Err("no_readme", <<>>, 0)>>)
                       \o <<Err("no_data", <<>>, 0)>>
        /\ investigations = <<>>

\* the run returned from a project with neither README.md nor data/
C4_Witness ==
    /\ mode = "check" /\ pc = "done" /\ ~hasData /\ ~hasReadme /\ Truthy(target)
    /\ Len(errors) = 2

\* C10: every key of the grouping fully matches [A-Za-z0-9_]+ in every state,
\* and the invalid-characters error is never emitted.
C10_KeysAreNames ==
    mode = "check" =>
        /\ \A k \in 1..Len(investigations) : FullMatchName(investigations[k].inv)
        /\ ErrIdx("bad_name") = {}

\* the name check of rule 6 ran over a grouping of two investigations
C10_Witness ==
    /\ mode = "check" /\ pc = "done"
    /\ Len(investigations) = 2
    /\ ErrIdx("tidy_count") # {}

(***************************************************************************)
(* load_yaml_fields.                                                       *)
(*                                                                         *)
(* What yaml.safe_load returns is [tag, items]: tag "map" with the items   *)
(* [key, val] in key order, tag "scalar" for any value that is no dict,    *)
(* tag "error" when opening or parsing the file raises.  A Python dict is  *)
(* the sequence of its [key, val] items in insertion order.                *)
(***************************************************************************)
YMap(items) == [tag |-> "map", items |-> items]
YScalar == [tag |-> "scalar", items |-> <<>>]
YError == [tag |-> "error", items |-> <<>>]
KV(key, val) == [key |-> key, val |-> val]

DictKeys(d) == {d[k].key : k \in 1..Len(d)}
DictGet(d, key) == d[CHOOSE k \in 1..Len(d) : d[k].key = key].val

\* a slip: an existing key keeps its value (setdefault instead of assignment)
DictSet_KeepsOld(d, key, val) ==
    IF key \in DictKeys(d) THEN d ELSE Append(d, KV(key, val))

\* d[key] = val: an existing key keeps its position and takes the new value
DictSet(d, key, val) ==
    IF key \in DictKeys(d)
       THEN [k \in 1..Len(d) |-> IF d[k].key = key THEN KV(key, val) ELSE d[k]]
       ELSE Append(d, KV(key, val))

\* d.update(other)
RECURSIVE DictUpdate(_, _)
DictUpdate(d, other) ==
    IF other = <<>> THEN d
    ELSE DictUpdate(DictSet(d, Head(other).key, Head(other).val), Tail(other))

\* the loop over yaml_data.items(), from the fields and warnings so far
RECURSIVE FieldLoop(_, _, _)
FieldLoop(items, fs, warns) ==
    IF items = <<>> THEN [fields |-> fs, warnings |-> warns]
    ELSE LET field_name == Head(items).key
             field_def == Head(items).val
         IN  IF field_def.tag # "map"
                THEN FieldLoop(Tail(items), fs,
                               Append(warns, [kind |-> "not_a_mapping",
                                              subject |-> field_name]))
                ELSE FieldLoop(Tail(items),
                               Append(fs, DictUpdate(<<KV("name", field_name)>>,
                                                     field_def.items)),
                               warns)

\* load_yaml_fields(yml_file), given what safe_load comes to and whether the
\* yaml module was imported: [exit, fields, warnings]
load_yaml_fields(data, haveYaml) ==
    IF ~haveYaml \/ data.tag = "error"
       THEN [exit |-> "yaml_load", fields |-> <<>>, warnings |-> <<>>]
    ELSE IF data.tag # "map"
       THEN [exit |-> "not_mapping", fields |-> <<>>, warnings |-> <<>>]
    ELSE LET r == FieldLoop(data.items, <<>>, <<>>)
         IN  [exit |-> "", fields |-> r.fields, warnings |-> r.warnings]

\* the values of a sidecar's top-level keys: scalars and mappings of
\* attributes, with and without an attribute called name
FieldDefs ==
    { YScalar, YMap(<<>>),
      YMap(<<KV("type", "string")>>), YMap(<<KV("type", "integer")>>),
      YMap(<<KV("name", "x")>>),
      YMap(<<KV("type", "string"), KV("name", "x")>>),
      YMap(<<KV("name", "x"), KV("type", "string")>>) }

FieldKeys == {"col_a", "col_b", "name"}

\* the mappings of at most MaxKeys distinct keys, a root that is no mapping,
\* and a file that does not load
YamlInputs ==
    {YScalar, YError} \cup
    {YMap(items) : items \in
        {s \in UNION {[1..n -> {KV(k, v) : k \in FieldKeys, v \in FieldDefs}] :
                          n \in 0..MaxKeys} :
            \A j, k \in 1..Len(s) : j # k => s[j].key # s[k].key}}

\* one call of load_yaml_fields
LoadFields ==
    /\ mode = "fields" /\ pc = "load"
    /\ LET r == load_yaml_fields(yaml_data, yamlOk = "present")
       IN  /\ fields' = r.fields
           /\ stderr' = r.warnings
           /\ exitMsg' = r.exit
    /\ pc' = "done"
    /\ UNCHANGED <<mode, hasReadme, hasData, listing, target, yamlOk, i, errors,
                   investigations, resources, created, clock, outFile, run,
                   before, yaml_data>>

InitFields ==
    /\ mode = "fields" /\ pc = "load" /\ i = 1
    /\ hasReadme = TRUE /\ hasData = TRUE /\ listing = <<>> /\ target = None
    /\ errors = <<>> /\ investigations = <<>> /\ resources = <<>>
    /\ created = 0 /\ clock = 0 /\ stderr = <<>> /\ exitMsg = ""
    /\ outFile = NoFile /\ run = 1 /\ before = NoRun /\ fields = <<>>
    /\ yamlOk \in {"present", "absent"}
    /\ yaml_data \in YamlInputs

NextFields == LoadFields

SpecFields == InitFields /\ [][NextFields]_vars

\* the items of a mapping whose value is a mapping, and the others, in order
MapItems(items) == SelectSeq(items, LAMBDA it : it.val.tag = "map")
OtherItems(items) == SelectSeq(items, LAMBDA it : it.val.tag # "map")

\* the definition a key with a mapping value stands for: name first, which is
\* the mapping's own name attribute if it has one and the key otherwise, then
\* the mapping's other attributes in their order
Definition(it) ==
    <<KV("name", IF "name" \in DictKeys(it.val.items)
                    THEN DictGet(it.val.items, "name") ELSE it.key)>>
    \o SelectSeq(it.val.items, LAMBDA a : a.key # "name")

HexDigits == <<"0","1","2","3","4","5","6","7","8","9","a","b","c","d","e","f">>

\* md5_hash.update(chunk)
RECURSIVE Md5Update(_, _)
Md5Update(h, chunk) ==
    IF chunk = <<>> THEN h
    ELSE Md5Update((h * 31 + Head(chunk) + 7) % 256, Tail(chunk))

\* md5_hash.hexdigest()
HexDigest(h) == <<HexDigits[(h \div 16) + 1], HexDigits[(h % 16) + 1]>>

\* for chunk in iter(lambda: f.read(8192), b""): md5_hash.update(chunk)
RECURSIVE ReadLoop(_, _)
ReadLoop(rest, h) ==
    IF rest = <<>> THEN h
    ELSE LET n == IF Len(rest) < ChunkSize THEN Len(rest) ELSE ChunkSize
         IN  ReadLoop(SubSeq(rest, n + 1, Len(rest)), Md5Update(h, SubSeq(rest, 1, n)))

\* compute_file_info(tsv_path) for a regular file: [exit, bytes, hash].  The
\* file was just found by os.path.isfile, so getsize succeeds; opening it
\* fails when it is not readable.
compute_file_info(entry) ==
    IF ~entry.readable
       THEN [exit |-> "md5", bytes |-> 0, hash |-> <<>>]
       ELSE [exit |-> "", bytes |-> Len(entry.bytes),
             hash |-> HexDigest(ReadLoop(entry.bytes, 0))]

(***************************************************************************)
(* package_investigations.                                                 *)
(***************************************************************************)
ext_tsv == <<".","t","s","v">>
ext_yml == <<".","y","m","l">>

\* file.endswith(suffix)
EndsWith(s, suffix) ==
    Len(s) >= Len(suffix) /\ SubSeq(s, Len(s) - Len(suffix) + 1, Len(s)) = suffix

\* os.path.splitext(file)[0] for a name without a separator: the part before
\* the last dot, unless only dots precede that dot
SplitextRoot(p) ==
    LET dots == {k \in 1..Len(p) : p[k] = "."}
    IN  IF dots = {} THEN p
        ELSE IF \E k \in 1..(SetMax(dots) - 1) : p[k] # "."
                THEN SubSeq(p, 1, SetMax(dots) - 1)
                ELSE p

\* the entry of data/ with this name; kind "none" when there is none
EntryOf(name) ==
    IF \E k \in 1..Len(listing) : listing[k].name = name
       THEN listing[CHOOSE k \in 1..Len(listing) : listing[k].name = name]
       ELSE Plain(name, "none")

\* os.path.isfile(os.path.join(data_path, name))
IsFile(name) == EntryOf(name).kind = "file"

\* what yaml.safe_load(open(path)) comes to: opening a directory or a missing
\* file raises
YamlOf(name) == IF IsFile(name) THEN EntryOf(name).yaml ELSE YError

\* os.path.basename(os.path.abspath(project_path)) or "defaultdata-package"
project_path == <<"/","w","/","p","r","o","j">>
Basename(p) ==
    LET seps == {k \in 1..Len(p) : p[k] = "/"}
    IN  IF seps = {} THEN p ELSE SubSeq(p, SetMax(seps) + 1, Len(p))
package_name ==
    IF Basename(project_path) = <<>>
       THEN <<"d","e","f","a","u","l","t","d","a","t","a","-","p","a","c","k","a","g","e">>
       ELSE Basename(project_path)

Dialect ==
    [header |-> TRUE, headerRows |-> <<1>>, headerJoin |-> " ", commentChar |-> "#",
     delimiter |-> "\t", lineTerminator |-> "\r\n", quoteChar |-> "\"",
     doubleQuote |-> TRUE, skipInitialSpace |-> FALSE]

Licenses ==
    << [name |-> "CC0", title |-> "Creative Commons CC0",
        path |-> "https://creativecommons.org/publicdomain/zero/1.0/"] >>

\* a slip: the clock is read again for every resource
ResourceCreated_Now == clock

\* the value of the key "created" of a resource
ResourceCreated == created

\* the dict `resource`
Resource(inv, bytes_size, hash_hex, flds) ==
    [profile |-> "tabular-data-resource", name |-> inv,
     path |-> <<"d","a","t","a","/">> \o inv \o ext_tsv,
     format |-> "tsv", mediatype |-> "text/tab-separated-values",
     encoding |-> "utf-8", bytes |-> bytes_size, hash |-> hash_hex,
     schema |-> [fields |-> flds], dialect |-> Dialect, licenses |-> Licenses,
     created |-> ResourceCreated]

\* `if not os.path.isdir(data_path): sys.exit(...)`; investigations = {}
PkgStart ==
    /\ mode = "package" /\ pc = "start"
    /\ IF hasData
          THEN /\ exitMsg' = exitMsg
               /\ pc' = IF listing = <<>> THEN "filter" ELSE "scan"
          ELSE exitMsg' = "no_data" /\ pc' = "done"
    /\ investigations' = <<>> /\ i' = 1
    /\ UNCHANGED <<mode, hasReadme, hasData, listing, target, yamlOk, errors,
                   resources, created, clock, stderr, outFile, run, before,
                   yaml_data, fields>>

\* the sidecar-collecting loop, one entry of data/
PkgScan ==
    /\ mode = "package" /\ pc = "scan"
    /\ investigations' =
          IF EndsWith(listing[i].name, ext_yml)
             THEN DictSet(investigations, SplitextRoot(listing[i].name), listing[i].name)
             ELSE investigations
    /\ IF i = Len(listing)
          THEN pc' = "filter" /\ i' = 1
          ELSE pc' = pc /\ i' = i + 1
    /\ UNCHANGED <<mode, hasReadme, hasData, listing, target, yamlOk, errors,
                   resources, created, clock, stderr, exitMsg, outFile, run,
                   before, yaml_data, fields>>

\* `if target_inv:` ... filter the list, or exit
PkgFilter ==
    /\ mode = "package" /\ pc = "filter"
    /\ IF Truthy(target)
          THEN IF target.name \notin DictKeys(investigations)
                  THEN /\ exitMsg' = "not_found" /\ pc' = "done"
                       /\ investigations' = investigations
                  ELSE /\ exitMsg' = exitMsg /\ pc' = "stamp"
                       /\ investigations' =
                             <<KV(target.name, DictGet(investigations, target.name))>>
          ELSE exitMsg' = exitMsg /\ pc' = "stamp" /\ investigations' = investigations
    /\ UNCHANGED <<mode, hasReadme, hasData, listing, target, yamlOk, i, errors,
                   resources, created, clock, stderr, outFile, run, before,
                   yaml_data, fields>>

\* a slip: datapackage.json is opened for writing before the resources are built
PkgStamp_OpensFile ==
    /\ mode = "package" /\ pc = "stamp"
    /\ resources' = <<>>
    /\ created' = clock
    /\ outFile' = [kind |-> "partial", pkg |-> NoPackage]
    /\ pc' = (IF investigations = <<>> THEN "write" ELSE "resource") /\ i' = 1
    /\ UNCHANGED <<mode, hasReadme, hasData, listing, target, yamlOk, errors,
                   investigations, clock, stderr, exitMsg, run, before,
                   yaml_data, fields>>

\* resources = []; created = utcnow().strftime(...)
PkgStamp ==
    /\ mode = "package" /\ pc = "stamp"
    /\ resources' = <<>>
    /\ created' = clock
    /\ pc' = (IF investigations = <<>> THEN "write" ELSE "resource") /\ i' = 1
    /\ UNCHANGED <<mode, hasReadme, hasData, listing, target, yamlOk, errors,
                   investigations, clock, stderr, exitMsg, outFile, run, before,
                   yaml_data, fields>>

\* a slip: a missing tidy file ends the run
TidyInfo_Fatal(inv) ==
    IF IsFile(inv \o ext_tsv)
       THEN LET r == compute_file_info(EntryOf(inv \o ext_tsv))
            IN  [exit |-> r.exit, bytes |-> r.bytes, hash |-> r.hash, warnings |-> <<>>]
       ELSE [exit |-> "md5", bytes |-> 0, hash |-> <<>>, warnings |-> <<>>]

\* `if os.path.isfile(tsv_path): ... else: ...` : [exit, bytes, hash, warnings]
TidyInfo(inv) ==
    IF IsFile(inv \o ext_tsv)
       THEN LET r == compute_file_info(EntryOf(inv \o ext_tsv))
            IN  [exit |-> r.exit, bytes |-> r.bytes, hash |-> r.hash, warnings |-> <<>>]
       ELSE [exit |-> "", bytes |-> 0, hash |-> <<>>,
             warnings |-> <<[kind |-> "tsv_not_found", subject |-> inv]>>]

\* the body of the loop over investigations.items(), for one investigation;
\* the clock may advance while the files are read
PkgResource ==
    /\ mode = "package" /\ pc = "resource"
    /\ \E have \in (IF yamlOk = "unknown" /\ TidyInfo(investigations[i].key).exit = ""
                       THEN {"present", "absent"} ELSE {yamlOk}) :
          LET inv == investigations[i].key
              info == TidyInfo(inv)
              loaded == load_yaml_fields(YamlOf(investigations[i].val), have = "present")
          IN  /\ yamlOk' = have
              /\ IF info.exit # ""
                    THEN /\ exitMsg' = info.exit /\ pc' = "done" /\ i' = i
                         /\ UNCHANGED <<resources, stderr>>
                    ELSE IF loaded.exit # ""
                    THEN /\ exitMsg' = loaded.exit /\ pc' = "done" /\ i' = i
                         /\ stderr' = stderr \o info.warnings
                         /\ resources' = resources
                    ELSE /\ exitMsg' = exitMsg
                         /\ stderr' = stderr \o info.warnings \o loaded.warnings
                         /\ resources' = Append(resources,
                               Resource(inv, info.bytes, info.hash, loaded.fields))
                         /\ IF i = Len(investigations)
                               THEN pc' = "write" /\ i' = i
                               ELSE pc' = pc /\ i' = i + 1
    /\ \E t \in {clock, clock + 1} : t <= MaxClock /\ clock' = t
    /\ UNCHANGED <<mode, hasReadme, hasData, listing, target, errors,
                   investigations, created, outFile, run, before, yaml_data, fields>>

\* what opening datapackage.json and json.dump can come to: written; open
\* raised and the file is as it was; dump raised after open truncated the file
WriteOutcomes == {"ok", "open_error", "dump_error"}

\* datapackage = {...}; open(out_file, "w"); json.dump(...)
PkgWrite ==
    /\ mode = "package" /\ pc = "write"
    /\ \E outcome \in WriteOutcomes :
          /\ outFile' = IF outcome = "ok"
                           THEN [kind |-> "written",
                                 pkg |-> [name |-> package_name, resources |-> resources]]
                        ELSE IF outcome = "dump_error"
                           THEN [kind |-> "partial", pkg |-> NoPackage]
                        ELSE outFile
          /\ exitMsg' = IF outcome = "ok" THEN exitMsg ELSE "write"
    /\ pc' = "done"
    /\ UNCHANGED <<mode, hasReadme, hasData, listing, target, yamlOk, i, errors,
                   investigations, resources, created, clock, stderr, run, before,
                   yaml_data, fields>>

\* the command is run a second time on the same project, now or a second later
SecondRun ==
    /\ mode = "package" /\ pc = "done" /\ run = 1
    /\ run' = 2 /\ pc' = "start" /\ i' = 1
    /\ before' = [exitMsg |-> exitMsg, outFile |-> outFile]
    /\ exitMsg' = "" /\ stderr' = <<>> /\ resources' = <<>>
    /\ investigations' = <<>> /\ created' = 0
    /\ \E t \in {clock, clock + 1} : t <= MaxClock /\ clock' = t
    /\ UNCHANGED <<mode, hasReadme, hasData, listing, target, yamlOk, errors,
                   outFile, yaml_data, fields>>

\* a file of data/ with content
File(name, bytes, readable, yaml) ==
    [name |-> name, kind |-> "file", bytes |-> bytes, readable |-> readable,
     yaml |-> yaml]

Y_ab == YMap(<<KV("col_a", YMap(<<KV("type", "string")>>)),
               KV("col_b", YMap(<<KV("type", "integer")>>))>>)
Y_mixed == YMap(<<KV("col_a", YScalar), KV("name", YMap(<<KV("name", "x")>>))>>)

\* the entries the listings of package mode are drawn from: sidecars that
\* load, fail to load or hold no mapping, a tidy file that is readable,
\* unreadable or a directory, and sidecar names that are no investigation names
PkgPool ==
    { File(n_sidecar, <<>>, TRUE, Y_ab), File(n_sidecar, <<>>, TRUE, YError),
      File(n_sidecar, <<>>, TRUE, YScalar),
      File(n_b_yml, <<>>, TRUE, Y_mixed),
      File(n_tidy, <<1, 2, 3>>, TRUE, NoYaml), File(n_tidy, <<1, 2, 3>>, FALSE, NoYaml),
      Plain(n_tidy, "dir"),
      File(n_dash_yml, <<>>, TRUE, Y_ab), File(n_dot_yml, <<>>, TRUE, Y_ab) }

OldFile == [kind |-> "written",
            pkg |-> [name |-> <<"o","l","d">>, resources |-> <<>>]]

PkgTargets == {None, Arg(<<"a">>), Arg(<<"z","z">>)}

InitPackage ==
    /\ mode = "package" /\ pc = "start" /\ i = 1 /\ run = 1
    /\ hasReadme = TRUE /\ errors = <<>> /\ investigations = <<>>
    /\ resources = <<>> /\ created = 0 /\ clock = 0 /\ stderr = <<>>
    /\ exitMsg = "" /\ yaml_data = NoYaml /\ fields = <<>>
    /\ yamlOk = "unknown"
    /\ hasData \in BOOLEAN
    /\ target \in PkgTargets
    /\ listing \in (IF hasData THEN Listings(PkgPool, MaxFiles) ELSE {<<>>})
    /\ outFile \in {NoFile, OldFile}
    /\ before = [exitMsg |-> "", outFile |-> outFile]

NextPackage ==
    \/ PkgStart
    \/ PkgScan
    \/ PkgFilter
    \/ PkgStamp
    \/ PkgResource
    \/ PkgWrite
    \/ SecondRun

SpecPackage == InitPackage /\ [][NextPackage]_vars

(***************************************************************************)
(* Properties of package mode.                                             *)
(***************************************************************************)
\* the digest of a whole content, fed at once
DigestOf(bytes) == HexDigest(Md5Update(0, bytes))

\* the sidecar of the k-th investigation loads into a mapping
Loads(k) ==
    yamlOk # "absent" /\ YamlOf(investigations[k].val).tag = "map"

\* C5: every resource built is the one of the investigation at its position;
\* it carries the size and digest of data/<name>.tsv when that is a file, and
\* 0 and "" with a warning on standard error when it is not; a run that ends
\* inside the loop ends on an unreadable tidy file or on a sidecar that does
\* not load, never on an absent tidy file; a run that gets past the loop has
\* built one resource per investigation.
C5_TidyPlaceholder ==
    mode = "package" =>
        /\ \A k \in 1..Len(resources) :
              LET tsv == resources[k].name \o ext_tsv
              IN  /\ resources[k].name = investigations[k].key
                  /\ IF IsFile(tsv)
                        THEN /\ resources[k].bytes = Len(EntryOf(tsv).bytes)
                             /\ resources[k].hash = DigestOf(EntryOf(tsv).bytes)
                        ELSE /\ resources[k].bytes = 0
                             /\ resources[k].hash = <<>>
                             /\ \E w \in 1..Len(stderr) :
                                   stderr[w] = [kind |-> "tsv_not_found",
                                                subject |-> resources[k].name]
        /\ (pc = "done" /\ exitMsg \in {"md5", "size", "yaml_load", "not_mapping"}) =>
              LET k == Len(resources) + 1
                  tsv == investigations[k].key \o ext_tsv
              IN  IF exitMsg \in {"md5", "size"}
                     THEN IsFile(tsv) /\ ~EntryOf(tsv).readable
                     ELSE ~Loads(k)
        /\ (pc = "write" \/ (pc = "done" /\ exitMsg \in {"", "write"})) =>
              Len(resources) = Len(investigations)

\* a run ended well with one resource of a present tidy file and one of an
\* absent tidy file
C5_Witness ==
    /\ mode = "package" /\ pc = "done" /\ exitMsg = ""
    /\ \E j, k \in 1..Len(resources) :
          /\ IsFile(resources[j].name \o ext_tsv) /\ resources[j].bytes = 3
          /\ ~IsFile(resources[k].name \o ext_tsv)
          /\ resources[k].bytes = 0 /\ resources[k].hash = <<>>

\* a package with the timestamps taken out
Timeless(pkg) ==
    [pkg EXCEPT !.resources = [k \in 1..Len(pkg.resources) |->
                                  [pkg.resources[k] EXCEPT !.created = 0]]]

\* C7: all resources of a run carry the timestamp taken at its start, and two
\* consecutive runs that both end well write packages that differ at most in
\* the timestamps.
C7_Deterministic ==
    mode = "package" =>
        /\ \A k \in 1..Len(resources) : resources[k].created = created
        /\ (run = 2 /\ pc = "done" /\ exitMsg = "" /\ before.exitMsg = "") =>
              /\ outFile.kind = "written" /\ before.outFile.kind = "written"
              /\ Timeless(outFile.pkg) = Timeless(before.outFile.pkg)

\* both runs ended well, a second apart, with two resources, one of them hashed
C7_Witness ==
    /\ mode = "package" /\ run = 2 /\ pc = "done"
    /\ exitMsg = "" /\ before.exitMsg = ""
    /\ Len(outFile.pkg.resources) = 2
    /\ \E k \in 1..2 : outFile.pkg.resources[k].hash # <<>>
    /\ outFile.pkg.resources[1].created # before.outFile.pkg.resources[1].created

\* C8: every resource is named by a sidecar of data/ with its extension
\* stripped, the name fully matches [A-Za-z0-9_]+, and check mode classifies
\* that sidecar under the same investigation.
C8_ResourceNamesAreNames ==
    mode = "package" =>
        \A k \in 1..Len(resources) :
            /\ FullMatchName(resources[k].name)
            /\ investigations[k].val = resources[k].name \o ext_yml
            /\ ClassifyFile(investigations[k].val) =
                  [matched |-> TRUE, ftype |-> "sidecar", inv |-> resources[k].name]

\* the fatal endings that come before the output file is opened
FatalBeforeWrite == {"no_data", "not_found", "yaml_load", "not_mapping", "md5", "size"}

\* C9: a run that ends on a missing data/ folder, a target without sidecar, a
\* sidecar that does not load or holds no mapping, or a tidy file that cannot
\* be sized or hashed leaves datapackage.json as it was when the run began;
\* the file differs from that only once every investigation has its resource.
C9_FatalLeavesOutput ==
    mode = "package" =>
        /\ exitMsg \in FatalBeforeWrite => outFile = before.outFile
        /\ outFile # before.outFile =>
              pc = "done" /\ Len(resources) = Len(investigations)

\* a run ended on a sidecar that does not load after it had built the resource
\* of another investigation, and the earlier datapackage.json is still there
C9_Witness ==
    /\ mode = "package" /\ pc = "done" /\ exitMsg = "yaml_load"
    /\ Len(resources) = 1 /\ Len(investigations) = 2
    /\ outFile = OldFile

====
